---- MODULE Spec2Model ----
(***************************************************************************)
(* Model of the film search service (src/app/search_service.py): the       *)
(* escaper, the tokenizer, the filter builder, the query-descriptor part   *)
(* of search, the response normalizer and the two request handlers,        *)
(* search and get_film.                                                    *)
(*                                                                         *)
(* Strings are sequences of one-character strings.  A Python Optional is   *)
(* None == <<>> or Some(x) == <<x>>.  A Python dict is a TLA+ function     *)
(* whose DOMAIN is the dict's key set.                                     *)
(***************************************************************************)
EXTENDS Integers, Sequences, FiniteSets, TLC

VARIABLES pc, op, req, params, engineCalls, resp, outcome, arg, ret

vars == <<pc, op, req, params, engineCalls, resp, outcome, arg, ret>>

(***************************************************************************)
(* Bounds of the model.                                                    *)
(***************************************************************************)
MaxLen == 4

None == <<>>
Some(x) == <<x>>
IsNone(o) == o = <<>>
Val(o) == o[1]

BS == "\\"
QUOTE == "\""

\* The characters free text is drawn from: two word characters, a
\* delimiter, and the two characters the escaper rewrites.
Alphabet == {"a", "b", " ", QUOTE, BS}

StringsUpTo(n) == UNION {[1..k -> Alphabet] : k \in 0..n}

(***************************************************************************)
(* str.replace(old, new) for a one-character old.                          *)
(***************************************************************************)
RECURSIVE Replace(_, _, _)
Replace(s, old, new) ==
    IF s = <<>> THEN <<>>
    ELSE (IF Head(s) = old THEN new ELSE <<Head(s)>>) \o Replace(Tail(s), old, new)

\* The two replacements in the wrong order: the backslash the quote escape
\* introduces is escaped again.
solr_escape_phrase_QuoteFirst(s) ==
    IF IsNone(s) THEN <<>>
    ELSE Replace(Replace(Val(s), QUOTE, <<BS, QUOTE>>), BS, <<BS, BS>>)

solr_escape_phrase(s) ==
    IF IsNone(s) THEN <<>>
    ELSE Replace(Replace(Val(s), BS, <<BS, BS>>), QUOTE, <<BS, QUOTE>>)

build_q_param(q) ==
    IF IsNone(q) \/ Val(q) = <<>> THEN <<"*", ":", "*">>
    ELSE LET q_esc == solr_escape_phrase(q)
         IN  <<QUOTE>> \o q_esc \o <<QUOTE>> \o <<" ", "O", "R", " ">> \o q_esc

(***************************************************************************)
(* The escaper applied to every string of the alphabet, and to None.       *)
(***************************************************************************)
InitEscape ==
    /\ pc = "escape"
    /\ op = "solr_escape_phrase"
    /\ arg \in {None} \cup {Some(s) : s \in StringsUpTo(MaxLen)}
    /\ ret = None
    /\ req = None /\ params = None /\ resp = None /\ outcome = None
    /\ engineCalls = 0

Escape ==
    /\ pc = "escape"
    /\ ret' = Some(solr_escape_phrase(arg))
    /\ pc' = "quote"
    /\ UNCHANGED <<op, req, params, engineCalls, resp, outcome, arg>>

\* The escaped text embedded in a quoted literal, as build_q_param,
\* build_fq_filters and get_film embed it.
BuildQ ==
    /\ pc = "quote"
    /\ params' = Some(build_q_param(arg))
    /\ pc' = "returned"
    /\ UNCHANGED <<op, req, engineCalls, resp, outcome, arg, ret>>

NextEscape == Escape \/ BuildQ

SpecEscape == InitEscape /\ [][NextEscape]_vars

\* Number of consecutive backslashes that end just before position i.
RECURSIVE BsBefore(_, _)
BsBefore(s, i) ==
    IF i > 1 /\ s[i - 1] = BS THEN 1 + BsBefore(s, i - 1) ELSE 0

\* What the engine's parser reads back from the inside of a quoted literal:
\* a backslash makes the next character literal.  Fails (returns None) on a
\* bare quote or a trailing lone backslash.
RECURSIVE Unescape(_)
Unescape(s) ==
    IF s = <<>> THEN Some(<<>>)
    ELSE IF Head(s) = QUOTE THEN None
    ELSE IF Head(s) = BS
         THEN IF Len(s) < 2 THEN None
              ELSE LET rest == Unescape(SubSeq(s, 3, Len(s)))
                   IN  IF IsNone(rest) THEN None ELSE Some(<<s[2]>> \o Val(rest))
    ELSE LET rest == Unescape(Tail(s))
         IN  IF IsNone(rest) THEN None ELSE Some(<<Head(s)>> \o Val(rest))

EscapedOk(out) ==
    /\ \A i \in 1..Len(out) : out[i] = QUOTE => BsBefore(out, i) % 2 = 1
    /\ \A j \in 1..Len(out) :
          (/\ out[j] = BS
           /\ (j = Len(out) \/ out[j + 1] \notin {BS, QUOTE}))
          => BsBefore(out, j + 1) % 2 = 0

\* C6: the escaper's output has no unescaped double quote and no unescaped
\* backslash (every quote follows an odd run of backslashes, every maximal
\* backslash run not followed by a quote is even), so that wrapped in quotes
\* it reads back as exactly the input; None yields the empty string and
\* every character other than quote and backslash is left unchanged.
C6_EscaperOutputIsOneLiteral ==
    pc \in {"quote", "returned"} =>
        LET out == Val(ret)
        IN  /\ EscapedOk(out)
            /\ IsNone(arg) => out = <<>>
            /\ ~IsNone(arg) => Unescape(out) = Some(Val(arg))
            /\ pc = "returned" /\ ~IsNone(arg) /\ Val(arg) # <<>> =>
                  /\ SubSeq(Val(params), 1, Len(out) + 2) = <<QUOTE>> \o out \o <<QUOTE>>
                  /\ Unescape(SubSeq(Val(params), 2, Len(out) + 1)) = Some(Val(arg))

\* An input with a backslash directly before a quote has been escaped.
C6_Witness ==
    /\ pc = "returned"
    /\ ~IsNone(arg)
    /\ Val(arg) = <<"a", BS, QUOTE, "b">>
    /\ Val(ret) = <<"a", BS, BS, BS, QUOTE, "b">>

(***************************************************************************)
(* Field names and number rendering.                                       *)
(***************************************************************************)
FIELD_ID == "id"
FIELD_TITLE == "title"
FIELD_YEAR == "year"
FIELD_GENRES == "genres"
FIELD_AVG_RATING == "average_rating"
FIELD_VOTE_COUNT == "vote_count"
FIELD_DIRECTORS == "directors"
FIELD_ACTORS == "actors"
FIELD_DESC == "description"

Digits == <<"0", "1", "2", "3", "4", "5", "6", "7", "8", "9">>

\* str(n) of a Python int, as an f-string renders it.
RECURSIVE NatStr(_)
NatStr(n) == IF n < 10 THEN <<Digits[n + 1]>> ELSE NatStr(n \div 10) \o <<Digits[(n % 10) + 1]>>

IntStr(n) == IF n < 0 THEN <<"-">> \o NatStr(0 - n) ELSE NatStr(n)

\* str(x) of a Python float with one decimal place, held as a number of
\* tenths: 85 is 8.5 and renders "8.5", 0 is 0.0 and renders "0.0".
FloatStr(t) == NatStr(t \div 10) \o <<".">> \o NatStr(t % 10)

RECURSIVE Join(_, _)
Join(sep, parts) ==
    IF parts = <<>> THEN <<>>
    ELSE IF Len(parts) = 1 THEN parts[1]
    ELSE parts[1] \o sep \o Join(sep, Tail(parts))

(***************************************************************************)
(* tokenize_for_fuzzy: re.findall(r"\w+", s), the maximal runs of word     *)
(* characters, left to right.                                              *)
(***************************************************************************)
WordChars == {"a", "b"}

RECURSIVE FindWords(_, _)
FindWords(s, cur) ==
    IF s = <<>> THEN (IF cur = <<>> THEN <<>> ELSE <<cur>>)
    ELSE IF Head(s) \in WordChars THEN FindWords(Tail(s), Append(cur, Head(s)))
    ELSE (IF cur = <<>> THEN <<>> ELSE <<cur>>) \o FindWords(Tail(s), <<>>)

tokenize_for_fuzzy(s) ==
    IF IsNone(s) \/ Val(s) = <<>> THEN <<>> ELSE FindWords(Val(s), <<>>)

\* re.escape: a backslash before each regex-special character (of the
\* alphabet, the space and the backslash).
ReSpecial == {" ", BS}

RECURSIVE re_escape(_)
re_escape(t) ==
    IF t = <<>> THEN <<>>
    ELSE (IF Head(t) \in ReSpecial THEN <<BS, Head(t)>> ELSE <<Head(t)>>) \o re_escape(Tail(t))

(***************************************************************************)
(* build_fq_filters                                                        *)
(***************************************************************************)
QuotedAlternatives(values) ==
    Join(<<" OR ">>,
         [i \in 1..Len(values) |-> <<QUOTE>> \o solr_escape_phrase(Some(values[i])) \o <<QUOTE>>])

ListClause(field, values) == <<field, ":", "(">> \o QuotedAlternatives(values) \o <<")">>

RangeClause(field, low, high) == <<field, ":", "[">> \o low \o <<" TO ">> \o high \o <<"]">>

\* Python truthiness of an Optional[List]: None and [] are false.
Truthy(o) == ~IsNone(o) /\ Val(o) # <<>>

\* The range tests written with truthiness instead of "is not None": a
\* bound of 0 counts as absent.
build_fq_filters_TruthyBounds(genres, min_rating, max_rating, directors, actors, year_from, year_to) ==
    (IF Truthy(genres) THEN <<ListClause(FIELD_GENRES, Val(genres))>> ELSE <<>>)
    \o (IF Truthy(directors) THEN <<ListClause(FIELD_DIRECTORS, Val(directors))>> ELSE <<>>)
    \o (IF Truthy(actors) THEN <<ListClause(FIELD_ACTORS, Val(actors))>> ELSE <<>>)
    \o (IF (~IsNone(min_rating) /\ Val(min_rating) # 0) \/ (~IsNone(max_rating) /\ Val(max_rating) # 0)
        THEN <<RangeClause(FIELD_AVG_RATING,
                           IF IsNone(min_rating) THEN <<"*">> ELSE FloatStr(Val(min_rating)),
                           IF IsNone(max_rating) THEN <<"*">> ELSE FloatStr(Val(max_rating)))>>
        ELSE <<>>)
    \o (IF (~IsNone(year_from) /\ Val(year_from) # 0) \/ (~IsNone(year_to) /\ Val(year_to) # 0)
        THEN <<RangeClause(FIELD_YEAR,
                           IF IsNone(year_from) THEN <<"*">> ELSE IntStr(Val(year_from)),
                           IF IsNone(year_to) THEN <<"*">> ELSE IntStr(Val(year_to)))>>
        ELSE <<>>)

build_fq_filters(genres, min_rating, max_rating, directors, actors, year_from, year_to) ==
    (IF Truthy(genres) THEN <<ListClause(FIELD_GENRES, Val(genres))>> ELSE <<>>)
    \o (IF Truthy(directors) THEN <<ListClause(FIELD_DIRECTORS, Val(directors))>> ELSE <<>>)
    \o (IF Truthy(actors) THEN <<ListClause(FIELD_ACTORS, Val(actors))>> ELSE <<>>)
    \o (IF ~IsNone(min_rating) \/ ~IsNone(max_rating)
        THEN <<RangeClause(FIELD_AVG_RATING,
                           IF IsNone(min_rating) THEN <<"*">> ELSE FloatStr(Val(min_rating)),
                           IF IsNone(max_rating) THEN <<"*">> ELSE FloatStr(Val(max_rating)))>>
        ELSE <<>>)
    \o (IF ~IsNone(year_from) \/ ~IsNone(year_to)
        THEN <<RangeClause(FIELD_YEAR,
                           IF IsNone(year_from) THEN <<"*">> ELSE IntStr(Val(year_from)),
                           IF IsNone(year_to) THEN <<"*">> ELSE IntStr(Val(year_to)))>>
        ELSE <<>>)

(***************************************************************************)
(* The filter builder applied to every combination of criteria.            *)
(***************************************************************************)
MaxList == 2

FilterValues == {<<"a">>, <<QUOTE, "b">>}

ListsUpTo(n) == UNION {[1..k -> FilterValues] : k \in 0..n}

OptLists == {None} \cup {Some(l) : l \in ListsUpTo(MaxList)}

\* Ratings in tenths (0.0 and 8.5) and years; 0 is a present bound.
OptRatings == {None, Some(0), Some(85)}
OptYears == {None, Some(0), Some(1999)}

InitFilters ==
    /\ pc = "filters"
    /\ op = "build_fq_filters"
    /\ arg \in [genre : OptLists, director : OptLists, actor : OptLists,
                min_rating : OptRatings, max_rating : {None, Some(100)},
                year_from : OptYears, year_to : {None, Some(2024)}]
    /\ ret = None
    /\ req = None /\ params = None /\ resp = None /\ outcome = None
    /\ engineCalls = 0

BuildFilters ==
    /\ pc = "filters"
    /\ ret' = Some(build_fq_filters(arg.genre, arg.min_rating, arg.max_rating,
                                    arg.director, arg.actor, arg.year_from, arg.year_to))
    /\ pc' = "returned"
    /\ UNCHANGED <<op, req, params, engineCalls, resp, outcome, arg>>

NextFilters == BuildFilters

SpecFilters == InitFilters /\ [][NextFilters]_vars

\* Reading a clause back: its field, and the two bounds of a range clause.
ClauseField(c) == c[1]

IndexOf(c, x) == CHOOSE i \in 1..Len(c) : c[i] = x /\ \A j \in 1..(i - 1) : c[j] # x

RangeLow(c) == SubSeq(c, 4, IndexOf(c, " TO ") - 1)
RangeHigh(c) == SubSeq(c, IndexOf(c, " TO ") + 1, Len(c) - 1)

DigitVal(ch) == CHOOSE d \in 0..9 : Digits[d + 1] = ch

RECURSIVE ParseNat(_)
ParseNat(s) == IF s = <<>> THEN 0 ELSE 10 * ParseNat(SubSeq(s, 1, Len(s) - 1)) + DigitVal(s[Len(s)])

ParseInt(s) == IF s[1] = "-" THEN 0 - ParseNat(Tail(s)) ELSE ParseNat(s)

\* A decimal numeral with one fractional digit, as a number of tenths.
ParseTenths(s) ==
    LET dot == IndexOf(s, ".")
    IN  10 * ParseNat(SubSeq(s, 1, dot - 1)) + ParseNat(SubSeq(s, dot + 1, Len(s)))

RECURSIVE Pick(_, _)
Pick(xs, keep) ==
    IF xs = <<>> THEN <<>>
    ELSE (IF Head(keep) THEN <<Head(xs)>> ELSE <<>>) \o Pick(Tail(xs), Tail(keep))

ClausesOf(out, field) == {i \in 1..Len(out) : ClauseField(out[i]) = field}

BoundOk(text, bound, isFloat) ==
    IF IsNone(bound) THEN text = <<"*">>
    ELSE /\ text # <<"*">>
         /\ (IF isFloat THEN ParseTenths(text) ELSE ParseInt(text)) = Val(bound)

\* C7: build_fq_filters emits exactly one clause for each present criterion
\* (non-empty genre, director, actor list; rating or year range with at
\* least one bound) and none for an absent one, in the order genre,
\* director, actor, rating range, year range; a range clause has * exactly
\* on the absent side and the number on the present side; the result is
\* empty when every criterion is absent and [* TO *] is never emitted.
C7_OneClausePerPresentCriterionInOrder ==
    pc = "returned" /\ op = "build_fq_filters" =>
        LET out == Val(ret)
            present == <<Truthy(arg.genre), Truthy(arg.director), Truthy(arg.actor),
                         ~IsNone(arg.min_rating) \/ ~IsNone(arg.max_rating),
                         ~IsNone(arg.year_from) \/ ~IsNone(arg.year_to)>>
            order == <<FIELD_GENRES, FIELD_DIRECTORS, FIELD_ACTORS, FIELD_AVG_RATING, FIELD_YEAR>>
        IN  /\ [i \in 1..Len(out) |-> ClauseField(out[i])] = Pick(order, present)
            /\ (\A k \in 1..5 : ~present[k]) => out = <<>>
            /\ \A i \in ClausesOf(out, FIELD_AVG_RATING) :
                  /\ BoundOk(RangeLow(out[i]), arg.min_rating, TRUE)
                  /\ BoundOk(RangeHigh(out[i]), arg.max_rating, TRUE)
            /\ \A i \in ClausesOf(out, FIELD_YEAR) :
                  /\ BoundOk(RangeLow(out[i]), arg.year_from, FALSE)
                  /\ BoundOk(RangeHigh(out[i]), arg.year_to, FALSE)
            /\ \A i \in ClausesOf(out, FIELD_AVG_RATING) \cup ClausesOf(out, FIELD_YEAR) :
                  ~(RangeLow(out[i]) = <<"*">> /\ RangeHigh(out[i]) = <<"*">>)

\* Only a lower rating bound of 0.0 and an upper year bound are given, with
\* two genres: three clauses, the ranges open on the absent side.
C7_Witness ==
    /\ pc = "returned" /\ op = "build_fq_filters"
    /\ arg.genre = Some(<<<<"a">>, <<QUOTE, "b">>>>)
    /\ IsNone(arg.director) /\ arg.actor = Some(<<>>)
    /\ arg.min_rating = Some(0) /\ IsNone(arg.max_rating)
    /\ IsNone(arg.year_from) /\ arg.year_to = Some(2024)
    /\ Val(ret) = << <<FIELD_GENRES, ":", "(", QUOTE, "a", QUOTE, " OR ", QUOTE, BS, QUOTE, "b", QUOTE, ")">>,
                     <<FIELD_AVG_RATING, ":", "[", "0", ".", "0", " TO ", "*", "]">>,
                     <<FIELD_YEAR, ":", "[", "*", " TO ", "2", "0", "2", "4", "]">> >>

(***************************************************************************)
(* search: the query descriptor (params) built from the request.           *)
(***************************************************************************)
FL == <<FIELD_ID, FIELD_TITLE, FIELD_YEAR, FIELD_GENRES, FIELD_AVG_RATING,
        FIELD_VOTE_COUNT, FIELD_DIRECTORS, FIELD_ACTORS, FIELD_DESC, "score">>

FacetFields == <<FIELD_GENRES, FIELD_DIRECTORS, FIELD_ACTORS>>

RatingBq == <<FIELD_AVG_RATING, ":", "[", "8", " TO ", "*", "]", "^", "5">>

\* re.sub(r'"', '', x)
DropQuotes(x) == Replace(x, QUOTE, <<>>)

\* The fuzzy boost query of search, or None.
FuzzyBq(q, fuzzy, fuzzy_distance) ==
    IF fuzzy /\ Truthy(q)
    THEN LET tokens == tokenize_for_fuzzy(q)
         IN  IF tokens # <<>>
             THEN LET fuzzy_terms ==
                          Join(<<" ">>,
                               [i \in 1..Len(tokens) |->
                                   DropQuotes(re_escape(tokens[i])) \o <<"~">> \o IntStr(fuzzy_distance)])
                      fuzzy_clause == <<FIELD_TITLE, ":", "(">> \o fuzzy_terms \o <<")">>
                  IN  Some(fuzzy_clause \o <<"^", "1", ".", "5">>)
             ELSE None
    ELSE None

\* The fuzzy boost put in front of the rating boost.
BqList_FuzzyFirst(bq, fuzzy_bq) ==
    (IF ~IsNone(fuzzy_bq) THEN <<Val(fuzzy_bq)>> ELSE <<>>)
    \o (IF ~IsNone(bq) /\ Val(bq) # <<>> THEN <<Val(bq)>> ELSE <<>>)

\* The final bq list: the rating boost already in params, then the fuzzy
\* boost when there is one.
BqList(bq, fuzzy_bq) ==
    (IF ~IsNone(bq) /\ Val(bq) # <<>> THEN <<Val(bq)>> ELSE <<>>)
    \o (IF ~IsNone(fuzzy_bq) THEN <<Val(fuzzy_bq)>> ELSE <<>>)

search_params(r) ==
    LET start == (r.page - 1) * r.per_page
        q_param == build_q_param(r.q)
        fqs == build_fq_filters(r.genre, r.min_rating, r.max_rating, r.director,
                                r.actor, r.year_from, r.year_to)
        fuzzy_bq == FuzzyBq(r.q, r.fuzzy, r.fuzzy_distance)
        bq_list == BqList(Some(RatingBq), fuzzy_bq)
    IN  [defType |-> "edismax",
         q |-> q_param,
         start |-> start,
         rows |-> r.per_page,
         wt |-> "json",
         qf |-> <<FIELD_TITLE, "^6", FIELD_DIRECTORS, "^3", FIELD_ACTORS, "^2",
                  FIELD_DESC, "^1", FIELD_GENRES, "^1">>,
         pf |-> <<FIELD_TITLE, "^8">>,
         pf2 |-> <<FIELD_TITLE, "^4">>,
         pf3 |-> <<FIELD_TITLE, "^2">>,
         mm |-> "2<-1 3<75%",
         tie |-> "0.1",
         qs |-> 2,
         fl |-> FL,
         bf |-> <<"log(sum(", FIELD_VOTE_COUNT, ",1))">>,
         bq |-> IF bq_list # <<>> THEN Some(bq_list) ELSE None,
         fq |-> IF fqs # <<>> THEN Some(fqs) ELSE None,
         facet |-> IF r.facet
                   THEN Some([facet |-> "true", field |-> FacetFields, limit |-> 20, mincount |-> 1])
                   ELSE None,
         sort |-> IF Truthy(r.sort) THEN r.sort ELSE None]

\* A request with no filters, no sort, no facets, no fuzzy matching.
PlainRequest ==
    [q |-> None, genre |-> None, director |-> None, actor |-> None,
     min_rating |-> None, max_rating |-> None, year_from |-> None, year_to |-> None,
     sort |-> None, page |-> 1, per_page |-> 20, facet |-> FALSE,
     fuzzy |-> FALSE, fuzzy_distance |-> 2]

(***************************************************************************)
(* The descriptor built for every free text, fuzzy flag and edit distance. *)
(***************************************************************************)
InitQuery ==
    /\ pc = "build"
    /\ op = "search_params"
    /\ \E q \in {None} \cup {Some(s) : s \in StringsUpTo(MaxLen)} :
       \E fuzzy \in BOOLEAN :
       \E d \in 1..3 :
          arg = [PlainRequest EXCEPT !.q = q, !.fuzzy = fuzzy, !.fuzzy_distance = d]
    /\ ret = None
    /\ req = None /\ params = None /\ resp = None /\ outcome = None
    /\ engineCalls = 0

BuildParams ==
    /\ pc = "build"
    /\ ret' = Some(search_params(arg))
    /\ pc' = "returned"
    /\ UNCHANGED <<op, req, params, engineCalls, resp, outcome, arg>>

NextQuery == BuildParams

SpecQuery == InitQuery /\ [][NextQuery]_vars

\* The words of a text by position: the k-th maximal interval of word
\* characters.
IsWordStart(s, i) == s[i] \in WordChars /\ (i = 1 \/ s[i - 1] \notin WordChars)
IsWordEnd(s, j) == s[j] \in WordChars /\ (j = Len(s) \/ s[j + 1] \notin WordChars)
WordStarts(s) == {i \in 1..Len(s) : IsWordStart(s, i)}
KthStart(s, k) == CHOOSE i \in WordStarts(s) : Cardinality({m \in WordStarts(s) : m < i}) = k - 1
EndOf(s, i) == CHOOSE j \in i..Len(s) : IsWordEnd(s, j) /\ \A m \in i..j : s[m] \in WordChars
KthWord(s, k) == SubSeq(s, KthStart(s, k), EndOf(s, KthStart(s, k)))

\* C5: the boost-query list always starts with the rating boost
\* average_rating:[8 TO *]^5; it has a second element, the fuzzy boost
\* title:(t1~d t2~d ...)^1.5 over the words of the free text in their
\* order with the requested distance d, exactly when fuzzy is on, the text
\* is non-empty and has at least one word; otherwise it is the rating boost
\* alone.
C5_BoostQueryList ==
    pc = "returned" /\ op = "search_params" =>
        LET p == Val(ret)
            text == IF IsNone(arg.q) THEN <<>> ELSE Val(arg.q)
            n == Cardinality(WordStarts(text))
            hasFuzzy == arg.fuzzy /\ text # <<>> /\ n >= 1
            terms == [k \in 1..n |-> KthWord(text, k) \o <<"~", Digits[arg.fuzzy_distance + 1]>>]
        IN  /\ ~IsNone(p.bq)
            /\ Val(p.bq)[1] = <<"average_rating", ":", "[", "8", " TO ", "*", "]", "^", "5">>
            /\ Len(Val(p.bq)) = IF hasFuzzy THEN 2 ELSE 1
            /\ hasFuzzy =>
                  Val(p.bq)[2] = <<"title", ":", "(">> \o Join(<<" ">>, terms)
                                 \o <<")", "^", "1", ".", "5">>

\* Two words around a quote, fuzzy on with distance 3: both boosts, the
\* words in their order.
C5_Witness ==
    /\ pc = "returned" /\ op = "search_params"
    /\ arg.q = Some(<<"b", QUOTE, "a", "a">>) /\ arg.fuzzy /\ arg.fuzzy_distance = 3
    /\ Val(ret).bq = Some(<< RatingBq,
                            <<FIELD_TITLE, ":", "(", "b", "~", "3", " ", "a", "a", "~", "3", ")",
                              "^", "1", ".", "5">> >>)

(***************************************************************************)
(* Outcomes of a handler: a returned value, or a raised exception.  An     *)
(* HTTPException carries its status code and detail; any other exception   *)
(* leaves the handler unhandled.                                           *)
(***************************************************************************)
Return(v) == [kind |-> "return", exc |-> "", status |-> 200, detail |-> <<>>, value |-> Some(v)]
Raise(exc, status, detail) ==
    [kind |-> "raise", exc |-> exc, status |-> status, detail |-> detail, value |-> None]

\* dict.get(key, default) on a key held as an Optional
Get(o, default) == IF IsNone(o) THEN default ELSE Val(o)

EmptyDict == [k \in {} |-> None]

(***************************************************************************)
(* Film: id is a required str, every other field is Optional.  Building a  *)
(* Film from a document without id raises pydantic's ValidationError.      *)
(***************************************************************************)
\* id declared Optional like the other fields.
FilmValid_IdOptional(d) == TRUE

FilmValid(d) == ~IsNone(d.id)

\* _score is a private attribute of the model, not a field: the score of the
\* document does not reach the Film.
Film(d) ==
    [id |-> d.id, title |-> d.title, year |-> d.year, genres |-> d.genres,
     average_rating |-> d.average_rating, vote_count |-> d.vote_count,
     directors |-> d.directors, actors |-> d.actors, description |-> d.description]

(***************************************************************************)
(* facet_list_to_pairs: [v1, c1, v2, c2, ...] to [{value, count}, ...].    *)
(* next(it) on an exhausted iterator raises StopIteration, which leaves    *)
(* the list comprehension.                                                 *)
(***************************************************************************)
\* Pairing that stops silently at a value without a count.
RECURSIVE PairUp_DropLast(_)
PairUp_DropLast(arr) ==
    IF Len(arr) < 2 THEN [raised |-> FALSE, pairs |-> <<>>]
    ELSE LET rest == PairUp_DropLast(SubSeq(arr, 3, Len(arr)))
         IN  [raised |-> FALSE, pairs |-> <<[value |-> arr[1], count |-> arr[2]]>> \o rest.pairs]

RECURSIVE PairUp(_)
PairUp(arr) ==
    IF arr = <<>> THEN [raised |-> FALSE, pairs |-> <<>>]
    ELSE IF Len(arr) = 1 THEN [raised |-> TRUE, pairs |-> <<>>]
    ELSE LET rest == PairUp(SubSeq(arr, 3, Len(arr)))
         IN  IF rest.raised THEN rest
             ELSE [raised |-> FALSE, pairs |-> <<[value |-> arr[1], count |-> arr[2]]>> \o rest.pairs]

\* arr is None (JSON null) or Some(array).
facet_list_to_pairs(arr) ==
    IF IsNone(arr) \/ Val(arr) = <<>> THEN [raised |-> FALSE, pairs |-> <<>>]
    ELSE PairUp(Val(arr))

\* math.ceil(num_found / per_page) written as floor division.
total_pages_Floor(num_found, per_page) ==
    IF per_page # 0 THEN num_found \div per_page ELSE 0

\* math.ceil(num_found / per_page) if per_page else 0
total_pages_of(num_found, per_page) ==
    IF per_page # 0
    THEN (num_found \div per_page) + (IF num_found % per_page # 0 THEN 1 ELSE 0)
    ELSE 0

(***************************************************************************)
(* search, after requests.get has returned a response.                     *)
(***************************************************************************)
search_normalize(r, response) ==
    IF response.status_code # 200
    THEN Raise("HTTPException", response.status_code, <<"Solr error: ", response.text>>)
    ELSE
    LET data == response.json
        rs == Get(data.response, [numFound |-> None, docs |-> None])
        num_found == Get(rs.numFound, 0)
        docs == Get(rs.docs, <<>>)
        facets == Get(Get(data.facet_counts, [facet_fields |-> None]).facet_fields, EmptyDict)
        flat == [k \in DOMAIN facets |-> facet_list_to_pairs(facets[k])]
    IN  IF \E i \in 1..Len(docs) : ~FilmValid(docs[i])
        THEN Raise("ValidationError", 0, <<>>)
        ELSE IF r.facet /\ \E k \in DOMAIN flat : flat[k].raised
        THEN Raise("StopIteration", 0, <<>>)
        ELSE Return([total |-> num_found,
                     page |-> r.page,
                     per_page |-> r.per_page,
                     total_pages |-> total_pages_of(num_found, r.per_page),
                     results |-> [i \in 1..Len(docs) |-> Film(docs[i])],
                     facets |-> IF r.facet
                                THEN Some([k \in DOMAIN flat |-> flat[k].pairs])
                                ELSE None])

\* search: except Exception around requests.get
search_except(exc) ==
    [pc |-> "done",
     outcome |-> Some(Raise("HTTPException", 503, <<"Error connecting to Solr: ", exc>>))]

(***************************************************************************)
(* get_film                                                                *)
(***************************************************************************)
get_film_params(film_id) ==
    [q |-> <<FIELD_ID, ":", QUOTE>> \o solr_escape_phrase(Some(film_id)) \o <<QUOTE>>,
     rows |-> 1, wt |-> "json", fl |-> FL]

\* requests.get is not inside a try: the exception leaves get_film.
get_film_except(exc) == [pc |-> "done", outcome |-> Some(Raise(exc, 0, <<>>))]

\* The empty-result test left out: docs[0] of an empty list raises IndexError.
get_film_normalize_NoEmptyTest(film_id, response) ==
    IF response.status_code # 200
    THEN Raise("HTTPException", response.status_code, <<"Solr error: ", response.text>>)
    ELSE
    LET data == Get(response.json.response, [numFound |-> None, docs |-> None])
        docs == Get(data.docs, <<>>)
    IN  IF docs = <<>> THEN Raise("IndexError", 0, <<>>)
        ELSE IF ~FilmValid(docs[1]) THEN Raise("ValidationError", 0, <<>>)
        ELSE Return(Film(docs[1]))

get_film_normalize(film_id, response) ==
    IF response.status_code # 200
    THEN Raise("HTTPException", response.status_code, <<"Solr error: ", response.text>>)
    ELSE
    LET data == Get(response.json.response, [numFound |-> None, docs |-> None])
        docs == Get(data.docs, <<>>)
    IN  IF docs = <<>>
        THEN Raise("HTTPException", 404, <<"Film ", film_id, " not found">>)
        ELSE IF ~FilmValid(docs[1]) THEN Raise("ValidationError", 0, <<>>)
        ELSE Return(Film(docs[1]))

(***************************************************************************)
(* The engine.  A call either fails in transport (requests.get raises) or  *)
(* returns a response.  A 200 response is a JSON object whose "response"   *)
(* section, numFound and docs may each be missing, with at most `rows`     *)
(* documents, and with a facet_counts section only when facets were asked  *)
(* for; facet_fields may leave fields out, and an array may be null,       *)
(* empty, of even or of odd length.                                        *)
(***************************************************************************)
MaxFound == 7
MaxPerPage == 4
MaxPage == 2
MaxDocs == 2

TransportErrors == {"ConnectionError", "Timeout"}

EmptyJson == [response |-> None, facet_counts |-> None]

TransportFailure(exc) ==
    [transport_error |-> Some(exc), status_code |-> 0, text |-> "", json |-> EmptyJson]

Doc(id, title) ==
    [id |-> id, title |-> title, year |-> None, genres |-> None, average_rating |-> None,
     vote_count |-> None, directors |-> None, actors |-> None, description |-> None,
     score |-> None]

Docs == {Doc(Some("tt1"), Some("Alien")), Doc(Some("tt2"), None), Doc(None, Some("Brazil"))}

Min(a, b) == IF a < b THEN a ELSE b

DocListsUpTo(n) == UNION {[1..k -> Docs] : k \in 0..n}

ResponseSections(rows) ==
    {None} \cup
    {Some([numFound |-> n, docs |-> d]) :
        n \in {None} \cup {Some(k) : k \in 0..MaxFound},
        d \in {None} \cup {Some(l) : l \in DocListsUpTo(Min(rows, MaxDocs))}}

FacetArrays ==
    {None, Some(<<>>), Some(<<"Action", "12", "Drama", "7">>), Some(<<"Action", "12", "Drama">>)}

FacetFieldMaps == UNION {[K -> FacetArrays] : K \in SUBSET {FIELD_GENRES, FIELD_DIRECTORS, FIELD_ACTORS}}

FacetCountsSections(facet) ==
    IF facet
    THEN {None, Some([facet_fields |-> None])} \cup {Some([facet_fields |-> Some(m)]) : m \in FacetFieldMaps}
    ELSE {None}

ErrorResponses ==
    {[transport_error |-> None, status_code |-> st, text |-> "engine error body", json |-> EmptyJson] :
        st \in {404, 500}}

OkResponses(rows, facet) ==
    {[transport_error |-> None, status_code |-> 200, text |-> "",
      json |-> [response |-> rs, facet_counts |-> fc]] :
        rs \in ResponseSections(rows), fc \in FacetCountsSections(facet)}

Responses(rows, facet) == ErrorResponses \cup OkResponses(rows, facet)

FilmIds == {<<"t", "t", "1">>, <<"a", QUOTE>>}

(***************************************************************************)
(* The two handlers.  Each call builds its parameters, makes one blocking  *)
(* requests.get, and runs to its outcome when that returns or raises.      *)
(***************************************************************************)
\* per_page = 0 is below the route's ge=1 bound and reaches the function
\* only when it is called directly; math.ceil is guarded for it.
Init ==
    /\ pc = "start"
    /\ \/ /\ op = "search"
          /\ \E facet \in BOOLEAN :
             \E page \in 1..MaxPage :
             \E per_page \in 0..MaxPerPage :
                req = [PlainRequest EXCEPT !.q = Some(<<"a">>), !.facet = facet,
                                           !.page = page, !.per_page = per_page]
       \/ /\ op = "get_film"
          /\ \E id \in FilmIds : req = [film_id |-> id]
    /\ params = None
    /\ engineCalls = 0
    /\ resp = None
    /\ outcome = None
    /\ arg = None /\ ret = None

SearchBuild ==
    /\ pc = "start" /\ op = "search"
    /\ params' = Some(search_params(req))
    /\ pc' = "call"
    /\ UNCHANGED <<op, req, engineCalls, resp, outcome, arg, ret>>

SearchTransportError ==
    /\ pc = "call" /\ op = "search"
    /\ \E exc \in TransportErrors :
          /\ engineCalls' = engineCalls + 1
          /\ resp' = Some(TransportFailure(exc))
          /\ pc' = search_except(exc).pc
          /\ outcome' = search_except(exc).outcome
    /\ UNCHANGED <<op, req, params, arg, ret>>

SearchResponse ==
    /\ pc = "call" /\ op = "search"
    /\ \E response \in Responses(Val(params).rows, ~IsNone(Val(params).facet)) :
          /\ engineCalls' = engineCalls + 1
          /\ resp' = Some(response)
          /\ outcome' = Some(search_normalize(req, response))
          /\ pc' = "done"
    /\ UNCHANGED <<op, req, params, arg, ret>>

GetFilmBuild ==
    /\ pc = "start" /\ op = "get_film"
    /\ params' = Some(get_film_params(req.film_id))
    /\ pc' = "call"
    /\ UNCHANGED <<op, req, engineCalls, resp, outcome, arg, ret>>

GetFilmTransportError ==
    /\ pc = "call" /\ op = "get_film"
    /\ \E exc \in TransportErrors :
          /\ engineCalls' = engineCalls + 1
          /\ resp' = Some(TransportFailure(exc))
          /\ pc' = get_film_except(exc).pc
          /\ outcome' = get_film_except(exc).outcome
    /\ UNCHANGED <<op, req, params, arg, ret>>

GetFilmResponse ==
    /\ pc = "call" /\ op = "get_film"
    /\ \E response \in Responses(Val(params).rows, FALSE) :
          /\ engineCalls' = engineCalls + 1
          /\ resp' = Some(response)
          /\ outcome' = Some(get_film_normalize(req.film_id, response))
          /\ pc' = "done"
    /\ UNCHANGED <<op, req, params, arg, ret>>

Next ==
    \/ SearchBuild
    \/ SearchTransportError
    \/ SearchResponse
    \/ GetFilmBuild
    \/ GetFilmTransportError
    \/ GetFilmResponse

Spec == Init /\ [][Next]_vars

(***************************************************************************)
(* Properties of the handlers.                                             *)
(***************************************************************************)
Done == pc = "done" /\ ~IsNone(outcome) /\ ~IsNone(resp)

TransportFailed == ~IsNone(resp) /\ ~IsNone(Val(resp).transport_error)

Answered(status) ==
    ~IsNone(resp) /\ IsNone(Val(resp).transport_error) /\ Val(resp).status_code = status

\* The documents of a 200 response, as the handlers read them.
RawDocs == Get(Get(Val(resp).json.response, [numFound |-> None, docs |-> None]).docs, <<>>)

IsHTTPException(o, status) == o.kind = "raise" /\ o.exc = "HTTPException" /\ o.status = status

\* C1: in search and in get_film alike, a transport failure of the engine
\* call ends the call with HTTPException 503 (ServiceUnavailable), and with
\* no other error and no result.
C1_TransportFailureIs503 ==
    TransportFailed =>
        /\ Done
        /\ IsHTTPException(Val(outcome), 503)
        /\ IsNone(Val(outcome).value)

\* C2: when facets are requested, the returned facet mapping has an entry
\* for each requested field (genres, directors, actors); where the engine's
\* array for the field is absent, null or empty the entry is the empty
\* bucket sequence, never a missing key.
C2_EntryForEveryRequestedFacetField ==
    Done /\ op = "search" /\ req.facet /\ Val(outcome).kind = "return" =>
        LET out == Val(Val(Val(outcome).value).facets)
            sent == Get(Get(Val(resp).json.facet_counts, [facet_fields |-> None]).facet_fields,
                        EmptyDict)
            requested == {Val(Val(params).facet).field[i] : i \in 1..3}
        IN  \A f \in requested :
               /\ f \in DOMAIN out
               /\ (f \notin DOMAIN sent \/ IsNone(sent[f]) \/ Val(sent[f]) = <<>>) => out[f] = <<>>

\* C3: a 200 response with a raw document that lacks id fails the call, in
\* search and in get_film, with the Film model's validation error and no
\* value (so no partial result list); no returned Film has a null id, and
\* each returned Film carries the id of its document.
C3_MissingIdFailsTheCall ==
    Done /\ Answered(200) =>
        LET o == Val(outcome)
        IN  /\ (\E i \in 1..Len(RawDocs) : IsNone(RawDocs[i].id)) =>
                  o.kind = "raise" /\ o.exc = "ValidationError" /\ IsNone(o.value)
            /\ o.kind = "return" /\ op = "search" =>
                  /\ Len(Val(o.value).results) = Len(RawDocs)
                  /\ \A i \in 1..Len(RawDocs) :
                        /\ ~IsNone(Val(o.value).results[i].id)
                        /\ Val(o.value).results[i].id = RawDocs[i].id
            /\ o.kind = "return" /\ op = "get_film" =>
                  ~IsNone(Val(o.value).id) /\ Val(o.value).id = RawDocs[1].id

\* The second document of a search page lacks id: the call raises.
C3_Witness ==
    /\ Done /\ Answered(200) /\ op = "search"
    /\ Len(RawDocs) = 2 /\ ~IsNone(RawDocs[1].id) /\ IsNone(RawDocs[2].id)
    /\ Val(outcome).kind = "raise" /\ Val(outcome).exc = "ValidationError"

\* A lookup whose only document lacks id raises too.
C3_WitnessLookup ==
    /\ Done /\ Answered(200) /\ op = "get_film"
    /\ Len(RawDocs) = 1 /\ IsNone(RawDocs[1].id)
    /\ Val(outcome).kind = "raise"

\* The error kinds by what the handlers raise: ServiceUnavailable is
\* HTTPException 503, UpstreamError is HTTPException with the engine's
\* status and body, NotFound is HTTPException 404 of get_film, and a
\* mapping error is the validation error of a document without id or the
\* StopIteration of a facet array of odd length.
IsServiceUnavailable(o) == IsHTTPException(o, 503) /\ TransportFailed

IsUpstreamError(o) ==
    /\ ~TransportFailed /\ ~Answered(200)
    /\ IsHTTPException(o, Val(resp).status_code)
    /\ o.detail = <<"Solr error: ", Val(resp).text>>

IsMappingError(o) ==
    Answered(200) /\ o.kind = "raise" /\ o.exc \in {"ValidationError", "StopIteration"}

IsNotFound(o) == Answered(200) /\ op = "get_film" /\ IsHTTPException(o, 404)

\* Every call makes at most one engine call; it has an outcome exactly when
\* it has ended, the outcome follows the one engine call at once, and after
\* it no step is possible: nothing is retried and no second outcome
\* replaces the first.
OneEngineCallOneTerminalOutcome ==
    /\ engineCalls <= 1
    /\ ~IsNone(outcome) <=> pc = "done"
    /\ engineCalls = 1 <=> pc = "done"
    /\ pc = "done" => ~ENABLED Next
    /\ pc = "done" =>
          /\ Val(outcome).kind \in {"return", "raise"}
          /\ Val(outcome).kind = "return" <=> ~IsNone(Val(outcome).value)

\* C4: in every execution of search and get_film the engine is invoked at
\* most once and the call ends, with nothing retried and nothing after the
\* outcome, in exactly one of a complete result or a single error that is
\* ServiceUnavailable, UpstreamError with the engine's status and body,
\* MappingError or NotFound.
C4_OneCallThenResultOrOneListedError ==
    /\ OneEngineCallOneTerminalOutcome
    /\ pc = "done" =>
          LET o == Val(outcome)
          IN  \/ o.kind = "return" /\ Answered(200)
              \/ o.kind = "raise" /\ IsServiceUnavailable(o)
              \/ o.kind = "raise" /\ IsUpstreamError(o)
              \/ o.kind = "raise" /\ IsMappingError(o)
              \/ o.kind = "raise" /\ IsNotFound(o)

\* C9: in a search result, total is the engine's numFound, or 0 when it
\* reports none; total_pages is the ceiling of total / per_page when
\* per_page > 0 and 0 when per_page = 0; page and per_page are those of the
\* request.
C9_PagingArithmetic ==
    Done /\ op = "search" /\ Val(outcome).kind = "return" =>
        LET v == Val(Val(outcome).value)
            reported == Get(Val(resp).json.response, [numFound |-> None, docs |-> None]).numFound
        IN  /\ v.total = (IF IsNone(reported) THEN 0 ELSE Val(reported))
            /\ v.page = req.page /\ v.per_page = req.per_page
            /\ v.per_page = 0 => v.total_pages = 0
            /\ v.per_page > 0 /\ v.total = 0 => v.total_pages = 0
            /\ v.per_page > 0 /\ v.total > 0 =>
                  /\ (v.total_pages - 1) * v.per_page < v.total
                  /\ v.total <= v.total_pages * v.per_page

\* Four matches at three per page, on page 2: two pages.
C9_Witness ==
    /\ Done /\ op = "search" /\ Val(outcome).kind = "return"
    /\ req.page = 2 /\ req.per_page = 3
    /\ Val(Val(outcome).value).total = 4
    /\ Val(Val(outcome).value).total_pages = 2
    /\ Val(Val(outcome).value).page = 2

\* A result with per_page = 0 and the engine reporting no numFound.
C9_WitnessZero ==
    /\ Done /\ op = "search" /\ Val(outcome).kind = "return"
    /\ req.per_page = 0
    /\ ~IsNone(Val(resp).json.response)
    /\ IsNone(Val(Val(resp).json.response).numFound)
    /\ Val(Val(outcome).value).total = 0
    /\ Val(Val(outcome).value).total_pages = 0

\* C10: a lookup answered 200 with zero documents ends with HTTPException
\* 404 and returns no Film; a Film is returned only for a 200 answer with
\* at least one document, and it is the Film of the first document.
C10_EmptyLookupIsNotFound ==
    Done /\ op = "get_film" =>
        LET o == Val(outcome)
        IN  /\ Answered(200) /\ RawDocs = <<>> =>
                  IsHTTPException(o, 404) /\ IsNone(o.value)
            /\ o.kind = "return" =>
                  /\ Answered(200)
                  /\ RawDocs # <<>>
                  /\ Val(o.value).id = RawDocs[1].id
                  /\ Val(o.value).title = RawDocs[1].title

\* A lookup answered 200 with an empty document list has ended in 404.
C10_Witness ==
    /\ Done /\ op = "get_film" /\ Answered(200)
    /\ ~IsNone(Val(resp).json.response)
    /\ Val(Val(resp).json.response).docs = Some(<<>>)
    /\ IsHTTPException(Val(outcome), 404)

\* A lookup answered with one document has returned its Film.
C10_WitnessFound ==
    /\ Done /\ op = "get_film" /\ Answered(200)
    /\ Len(RawDocs) = 1
    /\ Val(outcome).kind = "return"
    /\ Val(Val(outcome).value).id = Some("tt1")

(***************************************************************************)
(* The normalizer applied to every facet array of a bounded length.        *)
(***************************************************************************)
MaxArr == 5

FacetElems == {"Action", "Drama", "12"}

ArraysUpTo(n) == UNION {[1..k -> FacetElems] : k \in 0..n}

FacetResponse(arr) ==
    [transport_error |-> None, status_code |-> 200, text |-> "",
     json |-> [response |-> Some([numFound |-> Some(0), docs |-> Some(<<>>)]),
               facet_counts |-> Some([facet_fields |-> Some([k \in {FIELD_GENRES} |-> Some(arr)])])]]

InitFacets ==
    /\ pc = "normalize"
    /\ op = "search_normalize"
    /\ arg \in ArraysUpTo(MaxArr)
    /\ req = [PlainRequest EXCEPT !.facet = TRUE]
    /\ ret = None
    /\ params = None /\ resp = None /\ outcome = None
    /\ engineCalls = 0

NormalizeFacets ==
    /\ pc = "normalize"
    /\ ret' = Some(search_normalize(req, FacetResponse(arg)))
    /\ pc' = "returned"
    /\ UNCHANGED <<op, req, params, engineCalls, resp, outcome, arg>>

NextFacets == NormalizeFacets

SpecFacets == InitFacets /\ [][NextFacets]_vars

\* C8: a facet array v1, c1, ..., vn, cn of even length is flattened to
\* exactly the n buckets (v1, c1), ..., (vn, cn) in that order; an array
\* of odd length makes the call raise instead of returning buckets.
C8_FacetFlattening ==
    pc = "returned" /\ op = "search_normalize" =>
        LET o == Val(ret)
            n == Len(arg) \div 2
        IN  /\ Len(arg) % 2 = 0 =>
                  /\ o.kind = "return"
                  /\ DOMAIN Val(Val(o.value).facets) = {FIELD_GENRES}
                  /\ Val(Val(o.value).facets)[FIELD_GENRES] =
                        [k \in 1..n |-> [value |-> arg[2 * k - 1], count |-> arg[2 * k]]]
            /\ Len(arg) % 2 = 1 => o.kind = "raise" /\ IsNone(o.value)

\* Two buckets flattened in the engine's order.
C8_Witness ==
    /\ pc = "returned" /\ op = "search_normalize"
    /\ arg = <<"Drama", "12", "Action", "12">>
    /\ Val(ret).kind = "return"
    /\ Val(Val(Val(ret).value).facets)[FIELD_GENRES] =
          <<[value |-> "Drama", count |-> "12"], [value |-> "Action", count |-> "12"]>>

\* An array of three elements has made the call raise.
C8_WitnessOdd ==
    /\ pc = "returned" /\ op = "search_normalize"
    /\ Len(arg) = 3
    /\ Val(ret).kind = "raise"

====
